---- MODULE Spec2Model ----
(***************************************************************************)
(* Model of the doozer client connection (src/conn.go): the callers of     *)
(* Conn.call, the multiplexer goroutine Conn.mux, the reader goroutine     *)
(* Conn.readAll, Conn.Close, and the server at the other end of the        *)
(* stream.                                                                 *)
(*                                                                         *)
(* Unbuffered channels (c.send, c.msg, t.done) are rendezvous: a send and  *)
(* its receive are one joint step.  Buffered channels of capacity one      *)
(* (c.stop, errch) are a slot that is full or empty.                       *)
(***************************************************************************)
EXTENDS Integers, Sequences, FiniteSets, TLC

\* ---------------------------------------------------------------- bounds
\* The goroutines that invoke operations on the Conn.
Callers == {"a", "b"}
\* Calls issued on the connection, by all callers together.
MaxCalls == 3

\* ---------------------------------------------------------------- values
\* A nil *txn: the value of a map lookup that finds nothing, and the value
\* stored by txns[n] = nil.
NilTxn == <<>>

\* A nil pointer field (t.req.Tag, r.Tag, t.resp): the empty sequence; a set
\* pointer is a one-element sequence.
NilPtr == <<>>

Ptr(v) == <<v>>

\* A transaction is identified by its caller and the number of the call.
TxnOf(c, i) == <<c, i>>

Owner(t) == t[1]

CallNo(t) == t[2]

\* int32 arithmetic of n++.
Int32Max == 2147483647

Inc32(k) == IF k = Int32Max THEN -Int32Max - 1 ELSE k + 1

\* ---------------------------------------------------------------- state
VARIABLES
    cpc,        \* caller -> "idle" | "select" (line 168) | "wait" (line 172)
    cur,        \* caller -> number of its current (or last) call; 0: none yet
    tTag,       \* caller -> t.req.Tag of its current txn (NilPtr or Ptr(k))
    tErr,       \* caller -> t.err of its current txn ("nil" when unset)
    tResp,      \* caller -> t.resp of its current txn (NilPtr or Ptr(frame))
    tDone,      \* caller -> TRUE when a value was sent on t.done and not yet consumed
    fired,      \* caller -> number of sends on the current txn's done channel
    ret,        \* caller -> what its last call returned: [err, resp]
    afterClose, \* caller -> TRUE while it is in a call begun after a Close() returned
    muxpc,      \* "select" (197) | "error" (the range loop, 253) |
                \* "closestopped" (258) | "done" (returned) |
                \* "panicked" (nil dereference) | "blocked" (a send on a done
                \* channel nobody receives from)
    n,          \* mux: next tag
    txns,       \* mux: the map tag -> txn
    iter,       \* mux: keys the range loop of line 253 has still to visit
    cErr,       \* c.err
    stop,       \* c.stop holds a value
    errch,      \* the values buffered in errch
    rpc,        \* reader: "read" (263) | "sendmsg" (269) | "done"
    buf,        \* reader: the frame it holds
    connClosed, \* c.conn.Close() was called
    stopped,    \* c.stopped is closed
    stream,     \* the request frames written to the stream, in order
    answered,   \* the txns the server has answered
    closed,     \* a Close() has returned
    termRuns,   \* times the code after the error label was entered
    stoppedCloses, \* times close(c.stopped) ran
    lastAdmit,  \* the last admission: the tag given, n and the table before it
    dropped,    \* mux has dropped a frame (lines 227, 232, 237)
    pg,         \* a Getdir, Walk or Getdirinfo: its arguments, the server's
                \* directory, and what it returned
    du          \* a dialUri: its arguments, where it stands, what it returned

vars == <<cpc, cur, tTag, tErr, tResp, tDone, fired, ret, afterClose, muxpc, n,
          txns, iter, cErr, stop, errch, rpc, buf, connClosed, stopped, stream,
          answered, closed, termRuns, stoppedCloses, lastAdmit,
          dropped, pg, du>>

\* What the connection's goroutines and its callers leave alone.
otherVars == <<pg, du>>

callerVars == <<cpc, cur, tTag, tErr, tResp, tDone, fired, ret, afterClose>>

\* ---------------------------------------------------------------- the map
EmptyMap == [k \in {} |-> NilTxn]

\* txns[k]: nil when k is not a key.
Lookup(m, k) == IF k \in DOMAIN m THEN m[k] ELSE NilTxn

\* txns[k] = v
Put(m, k, v) == [x \in DOMAIN m \cup {k} |-> IF x = k THEN v ELSE m[x]]

\* A delete that leaves the entry where it is.
DeleteKeeps(m, k) == m

\* delete(txns, k)
Delete(m, k) == [x \in DOMAIN m \ {k} |-> m[x]]

\* The tags under which the table holds a txn (a non-nil value).
Occupied(m) == {k \in DOMAIN m : m[k] # NilTxn}

\* ---------------------------------------------------------------- frames
NoFrame == [kind |-> "none", tag |-> NilPtr, ans |-> NilTxn, code |-> "ok"]

\* A frame whose payload does not decode.
Garbage == [kind |-> "garbage", tag |-> NilPtr, ans |-> NilTxn, code |-> "ok"]

\* A response: its tag (possibly nil), the txn whose request it answers, and
\* whether it carries an error code.
Resp(tg, t, code) == [kind |-> "resp", tag |-> tg, ans |-> t, code |-> code]

\* proto.Unmarshal(buf, &r) fails
DecodeFails(f) == f.kind # "resp"

Written == {stream[i] : i \in 1..Len(stream)}

\* What a call returned: the error, and t.resp as the operation then reads it.
NoRet == [err |-> "nil", resp |-> NilPtr]

\* ---------------------------------------------------------------- Init
\* The state dial leaves: the channels made and empty, both goroutines
\* started, mux with an empty table and n = 0.
ConnInit ==
    /\ cpc = [c \in Callers |-> "idle"]
    /\ cur = [c \in Callers |-> 0]
    /\ tTag = [c \in Callers |-> NilPtr]
    /\ tErr = [c \in Callers |-> "nil"]
    /\ tResp = [c \in Callers |-> NilPtr]
    /\ tDone = [c \in Callers |-> FALSE]
    /\ fired = [c \in Callers |-> 0]
    /\ ret = [c \in Callers |-> NoRet]
    /\ afterClose = [c \in Callers |-> FALSE]
    /\ muxpc = "select"
    /\ n = 0
    /\ txns = EmptyMap
    /\ iter = {}
    /\ cErr = "nil"
    /\ stop = FALSE
    /\ errch = <<>>
    /\ rpc = "read"
    /\ buf = NoFrame
    /\ connClosed = FALSE
    /\ stopped = FALSE
    /\ stream = <<>>
    /\ answered = {}
    /\ closed = FALSE
    /\ termRuns = 0
    /\ stoppedCloses = 0
    /\ lastAdmit = [tag |-> 0, cursor |-> 0, occ |-> {}, any |-> FALSE]
    /\ dropped = FALSE

\* No Getdir, Walk or Getdirinfo is under way.
NoPage == [fn |-> "none"]

\* No dialUri is under way.
NoDial == [pc |-> "none"]

\* One connection, dialed, and its callers.
Init == ConnInit /\ pg = NoPage /\ du = NoDial

\* ---------------------------------------------------------------- callers
RECURSIVE Sum(_, _)
Sum(f, S) == IF S = {} THEN 0
             ELSE LET x == CHOOSE y \in S : TRUE IN f[x] + Sum(f, S \ {x})

\* The calls begun so far.
NumCalls == Sum(cur, Callers)

\* An operation (Nop, Get, ...) builds a txn and enters call: t.done is made
\* and the caller reaches the select of line 168.
StartCall(c) ==
    /\ cpc[c] = "idle"
    /\ NumCalls < MaxCalls
    /\ cpc' = [cpc EXCEPT ![c] = "select"]
    /\ cur' = [cur EXCEPT ![c] = @ + 1]
    /\ tTag' = [tTag EXCEPT ![c] = NilPtr]
    /\ tErr' = [tErr EXCEPT ![c] = "nil"]
    /\ tResp' = [tResp EXCEPT ![c] = NilPtr]
    /\ tDone' = [tDone EXCEPT ![c] = FALSE]
    /\ fired' = [fired EXCEPT ![c] = 0]
    /\ afterClose' = [afterClose EXCEPT ![c] = closed]
    /\ ret' = [ret EXCEPT ![c] = NoRet]
    /\ UNCHANGED <<muxpc, n, txns, iter, cErr, stop, errch, rpc, buf,
                   connClosed, stopped, stream, answered, closed,
                   termRuns, stoppedCloses, lastAdmit, dropped>>

\* case <-c.stopped: return c.err
CallStopped(c) ==
    /\ cpc[c] = "select"
    /\ stopped
    /\ cpc' = [cpc EXCEPT ![c] = "idle"]
    /\ ret' = [ret EXCEPT ![c] = [err |-> cErr, resp |-> NilPtr]]
    /\ afterClose' = [afterClose EXCEPT ![c] = FALSE]
    /\ UNCHANGED <<cur, tTag, tErr, tResp, tDone, fired, muxpc, n,
                   txns, iter, cErr, stop, errch, rpc, buf, connClosed, stopped,
                   stream, answered, closed, termRuns, stoppedCloses,
                   lastAdmit, dropped>>

\* A result that does not look at the response's error code.
OutcomeNoErrCode(err, resp) == err

\* What call returns once <-t.done has been received (lines 173-180).
Outcome(err, resp) ==
    IF err # "nil" THEN err
    ELSE IF resp # NilPtr /\ resp[1].code = "err" THEN "ServerErr"
    ELSE "nil"

\* <-t.done, then the result of the call.
CallReturn(c) ==
    /\ cpc[c] = "wait"
    /\ tDone[c]
    /\ cpc' = [cpc EXCEPT ![c] = "idle"]
    /\ tDone' = [tDone EXCEPT ![c] = FALSE]
    /\ ret' = [ret EXCEPT ![c] = [err |-> Outcome(tErr[c], tResp[c]),
                                  resp |-> tResp[c]]]
    /\ afterClose' = [afterClose EXCEPT ![c] = FALSE]
    /\ UNCHANGED <<cur, tTag, tErr, tResp, fired, muxpc, n, txns,
                   iter, cErr, stop, errch, rpc, buf, connClosed, stopped,
                   stream, answered, closed, termRuns, stoppedCloses,
                   lastAdmit, dropped>>

\* A Close that sends on c.stop without the default case: it blocks while the
\* buffer is full.
CloseBlocking ==
    /\ ~stop
    /\ stop' = TRUE
    /\ closed' = TRUE
    /\ UNCHANGED <<callerVars, muxpc, n, txns, iter, cErr, errch, rpc, buf,
                   connClosed, stopped, stream, answered, termRuns,
                   stoppedCloses, lastAdmit, dropped>>

\* Close: a non-blocking send on c.stop; a full buffer drops the request.
Close ==
    /\ stop' = TRUE
    /\ closed' = TRUE
    /\ UNCHANGED <<callerVars, muxpc, n, txns, iter, cErr, errch, rpc, buf,
                   connClosed, stopped, stream, answered, termRuns,
                   stoppedCloses, lastAdmit, dropped>>

\* ---------------------------------------------------------------- mux
\* The search of lines 200-202: from n upward, the first tag under which the
\* table holds no txn (a missing key and a nil value both read as nil).
\* The lowest tag, from 0, under which the tags S hold no txn.
LowestFree(S) ==
    CHOOSE k \in 0..Cardinality(S) : k \notin S /\ \A j \in 0..(k - 1) : j \in S

\* A search that takes n as it is, without looking at the table.
FindTagNoScan(m, k) == k

\* A search that starts over from 0 on every submission.
FindTagLowest(m, k) == LowestFree(Occupied(m))

RECURSIVE FindTag(_, _)
FindTag(m, k) == IF Lookup(m, k) # NilTxn THEN FindTag(m, Inc32(k)) ELSE k

\* The caller of t is receiving on t.done: it is in its call number CallNo(t),
\* past the send on c.send, and no value is pending for it.
Receiving(t) ==
    /\ cur[Owner(t)] = CallNo(t)
    /\ cpc[Owner(t)] = "wait"
    /\ ~tDone[Owner(t)]

\* The code after the error label begins: c.err = err, and the range loop
\* over the table tbl starts.
GotoError(e, tbl) ==
    /\ cErr' = e
    /\ iter' = DOMAIN tbl
    /\ muxpc' = "error"
    /\ termRuns' = termRuns + 1

\* A write that puts the frame ahead of what the stream holds.
WriteAhead(s, f) == <<f>> \o s

\* c.write(buf) succeeds (lines 289-297): the frame, length prefix and
\* payload, follows what the stream holds.
Write(s, f) == Append(s, f)

\* case t := <-c.send (lines 198-221), joint with caller c's send.  The txn is
\* entered in the table under the tag found and stamped with it; then the
\* request is encoded and written.  Encoding and writing succeed or fail.
Admit(c) ==
    /\ muxpc = "select"
    /\ cpc[c] = "select"
    /\ LET t == TxnOf(c, cur[c])
           tag == FindTag(txns, n)
           tbl == Put(txns, tag, t)
       IN /\ n' = tag
          /\ cpc' = [cpc EXCEPT ![c] = "wait"]
          /\ tTag' = [tTag EXCEPT ![c] = Ptr(tag)]
          /\ lastAdmit' = [tag |-> tag, cursor |-> n, occ |-> Occupied(txns),
                           any |-> TRUE]
          /\ \/ \* proto.Marshal fails: lines 211-215
                /\ txns' = Put(tbl, tag, NilTxn)
                /\ tErr' = [tErr EXCEPT ![c] = "EncodeErr"]
                /\ tDone' = [tDone EXCEPT ![c] = TRUE]
                /\ fired' = [fired EXCEPT ![c] = @ + 1]
                /\ UNCHANGED <<muxpc, iter, cErr, termRuns, stream>>
             \/ \* the frame is written: back to the select
                /\ txns' = tbl
                /\ stream' = Write(stream, [tag |-> tag, req |-> t])
                /\ UNCHANGED <<tErr, tDone, fired, muxpc, iter, cErr, termRuns>>
             \/ \* c.write fails: goto error
                /\ txns' = tbl
                /\ GotoError("WriteErr", tbl)
                /\ UNCHANGED <<tErr, tDone, fired, stream>>
    /\ UNCHANGED <<cur, tResp, ret, afterClose, stop, errch, rpc, buf,
                   connClosed, stopped, answered, closed,
                   stoppedCloses, dropped>>

\* A test that leaves out the nil check of line 235.
DroppedNoNilCheck(m, f) ==
    \/ DecodeFails(f)
    \/ f.tag = NilPtr

\* A match by arrival order: the frame goes to the txn with the lowest tag.
RouteOldest(m, f) ==
    m[CHOOSE k \in Occupied(m) : \A j \in Occupied(m) : k <= j]

\* Lines 224-238: the frame is dropped when it does not decode, has no tag,
\* or its tag has no txn in the table.
Dropped(m, f) ==
    \/ DecodeFails(f)
    \/ f.tag = NilPtr
    \/ Lookup(m, f.tag[1]) = NilTxn

\* Line 234: the txn a decoded, tagged frame is handed to.
Route(m, f) == Lookup(m, f.tag[1])

\* case buf := <-c.msg (lines 222-242), joint with the reader's send.
Deliver ==
    /\ muxpc = "select"
    /\ rpc = "sendmsg"
    /\ rpc' = "read"
    /\ buf' = NoFrame
    /\ dropped' = (dropped \/ Dropped(txns, buf))
    /\ IF Dropped(txns, buf)
       THEN UNCHANGED <<tResp, tDone, fired, txns, muxpc>>
       ELSE LET t == Route(txns, buf)
            IN IF t = NilTxn
               THEN \* t.resp = &r on a nil t
                    /\ txns' = Delete(txns, buf.tag[1])
                    /\ muxpc' = "panicked"
                    /\ UNCHANGED <<tResp, tDone, fired>>
               ELSE /\ txns' = Delete(txns, buf.tag[1])
                    /\ tResp' = [tResp EXCEPT ![Owner(t)] = Ptr(buf)]
                    /\ IF Receiving(t)
                       THEN /\ tDone' = [tDone EXCEPT ![Owner(t)] = TRUE]
                            /\ fired' = [fired EXCEPT ![Owner(t)] = @ + 1]
                            /\ UNCHANGED muxpc
                       ELSE /\ muxpc' = "blocked"
                            /\ UNCHANGED <<tDone, fired>>
    /\ UNCHANGED <<cpc, cur, tTag, tErr, ret, afterClose, n, iter, cErr, stop,
                   errch, connClosed, stopped, stream, answered, closed, termRuns, stoppedCloses, lastAdmit>>

\* case err = <-errch: goto error
MuxErrch ==
    /\ muxpc = "select"
    /\ errch # <<>>
    /\ errch' = Tail(errch)
    /\ GotoError(Head(errch), txns)
    /\ UNCHANGED <<callerVars, n, txns, stop, rpc, buf, connClosed, stopped,
                   stream, answered, closed, stoppedCloses, lastAdmit, dropped>>

\* case <-c.stop: err = ErrClosed; goto error
MuxStop ==
    /\ muxpc = "select"
    /\ stop
    /\ stop' = FALSE
    /\ GotoError("ErrClosed", txns)
    /\ UNCHANGED <<callerVars, n, txns, errch, rpc, buf, connClosed, stopped,
                   stream, answered, closed, stoppedCloses, lastAdmit, dropped>>

\* One iteration of the range loop (lines 253-256), with the key k it
\* visits; the order of a map's range is not fixed.
MuxRange(k) ==
    /\ muxpc = "error"
    /\ k \in iter
    /\ iter' = iter \ {k}
    /\ LET t == txns[k]
       IN IF t = NilTxn
          THEN \* t.err = err on a nil t
               /\ muxpc' = "panicked"
               /\ UNCHANGED <<tErr, tDone, fired>>
          ELSE /\ tErr' = [tErr EXCEPT ![Owner(t)] = cErr]
               /\ IF Receiving(t)
                  THEN /\ tDone' = [tDone EXCEPT ![Owner(t)] = TRUE]
                       /\ fired' = [fired EXCEPT ![Owner(t)] = @ + 1]
                       /\ UNCHANGED muxpc
                  ELSE /\ muxpc' = "blocked"
                       /\ UNCHANGED <<tDone, fired>>
    /\ UNCHANGED <<cpc, cur, tTag, tResp, ret, afterClose, n, txns, cErr, stop,
                   errch, rpc, buf, connClosed, stopped, stream, answered,
                   closed, termRuns, stoppedCloses, lastAdmit, dropped>>

\* The loop is over: c.conn.Close() (line 257).
MuxCloseConn ==
    /\ muxpc = "error"
    /\ iter = {}
    /\ connClosed' = TRUE
    /\ muxpc' = "closestopped"
    /\ UNCHANGED <<callerVars, n, txns, iter, cErr, stop, errch, rpc, buf,
                   stopped, stream, answered, closed, termRuns,
                   stoppedCloses, lastAdmit, dropped>>

\* close(c.stopped) (line 258), and mux returns.
MuxCloseStopped ==
    /\ muxpc = "closestopped"
    /\ stopped' = TRUE
    /\ stoppedCloses' = stoppedCloses + 1
    /\ muxpc' = "done"
    /\ UNCHANGED <<callerVars, n, txns, iter, cErr, stop, errch, rpc, buf,
                   connClosed, stream, answered, closed, termRuns,
                   lastAdmit, dropped>>

\* ---------------------------------------------------------------- reader
\* The frames the server may send next: the answer to a request it has read
\* and not answered, carrying that request's tag, with or without an error
\* code; and, at any time, a frame that answers nothing: one that
\* does not decode, one without a tag, or a second copy of an answer already
\* sent, under a tag that no request still waiting for its answer carries
\* and that lies below a tag the server has seen (n has moved past such a
\* tag, so no later request carries it).
Answers ==
    {Resp(Ptr(w.tag), w.req, code) : w \in {x \in Written : x.req \notin answered},
                                      code \in {"ok", "err"}}

Noise ==
    {Garbage, Resp(NilPtr, NilTxn, "ok")}
    \cup {Resp(Ptr(w.tag), w.req, "ok") :
            w \in {x \in Written :
                     /\ \A y \in Written : y.tag = x.tag => y.req \in answered
                     /\ \E y \in Written : y.tag > x.tag}}

\* c.read() returns a frame (lines 263, 273-287); the reader goes on to the
\* send of line 269.
ReaderRead ==
    /\ rpc = "read"
    /\ ~connClosed
    /\ \/ \E f \in Answers :
            /\ buf' = f
            /\ answered' = answered \cup {f.ans}
       \/ \E f \in Noise :
            /\ buf' = f
            /\ UNCHANGED answered
    /\ rpc' = "sendmsg"
    /\ UNCHANGED <<callerVars, muxpc, n, txns, iter, cErr, stop, errch,
                   connClosed, stopped, stream, closed, termRuns,
                   stoppedCloses, lastAdmit, dropped>>

\* c.read() fails (the transport broke, or the stream was closed): the error
\* goes into errch, which has room for it, and readAll returns (264-267).
ReaderReadErr ==
    /\ rpc = "read"
    /\ errch' = Append(errch, "ReadErr")
    /\ rpc' = "done"
    /\ UNCHANGED <<callerVars, muxpc, n, txns, iter, cErr, stop, buf,
                   connClosed, stopped, stream, answered, closed,
                   termRuns, stoppedCloses, lastAdmit, dropped>>

\* ---------------------------------------------------------------- Next
Next ==
    \/ (\E c \in Callers : StartCall(c)) /\ UNCHANGED otherVars
    \/ (\E c \in Callers : CallStopped(c)) /\ UNCHANGED otherVars
    \/ (\E c \in Callers : CallReturn(c)) /\ UNCHANGED otherVars
    \/ Close /\ UNCHANGED otherVars
    \/ (\E c \in Callers : Admit(c)) /\ UNCHANGED otherVars
    \/ Deliver /\ UNCHANGED otherVars
    \/ MuxErrch /\ UNCHANGED otherVars
    \/ MuxStop /\ UNCHANGED otherVars
    \/ (\E k \in iter : MuxRange(k)) /\ UNCHANGED otherVars
    \/ MuxCloseConn /\ UNCHANGED otherVars
    \/ MuxCloseStopped /\ UNCHANGED otherVars
    \/ ReaderRead /\ UNCHANGED otherVars
    \/ ReaderReadErr /\ UNCHANGED otherVars

Spec == Init /\ [][Next]_vars

\* The scheduler runs every goroutine that can take a step: a caller that can
\* return does; mux, when it is not blocked, goes on; a send and a receive
\* that are both ready meet; a read on a closed stream fails.
FairSpec ==
    /\ Spec
    /\ \A c \in Callers : WF_vars(CallStopped(c) /\ UNCHANGED otherVars)
    /\ \A c \in Callers : WF_vars(CallReturn(c) /\ UNCHANGED otherVars)
    /\ \A c \in Callers : WF_vars(Admit(c) /\ UNCHANGED otherVars)
    /\ WF_vars(Deliver /\ UNCHANGED otherVars)
    /\ WF_vars(MuxErrch /\ UNCHANGED otherVars)
    /\ WF_vars(MuxStop /\ UNCHANGED otherVars)
    /\ WF_vars((\E k \in iter : MuxRange(k)) /\ UNCHANGED otherVars)
    /\ WF_vars(MuxCloseConn /\ UNCHANGED otherVars)
    /\ WF_vars(MuxCloseStopped /\ UNCHANGED otherVars)
    /\ WF_vars((ReaderReadErr /\ connClosed) /\ UNCHANGED otherVars)

\* ================================================================ pagination
\* The most entries the server's directory holds.
MaxEntries == 3

\* The connection's variables: a Getdir, Walk or Getdirinfo is modelled by
\* what its calls return, and leaves them alone.
connVars == <<cpc, cur, tTag, tErr, tResp, tDone, fired, ret, afterClose,
              muxpc, n, txns, iter, cErr, stop, errch, rpc, buf, connClosed,
              stopped, stream, answered, closed, termRuns, stoppedCloses,
              lastAdmit, dropped>>

\* Error values: nil, the *Error that call builds from a response's ErrCode
\* (line 177), or any other error (t.err, c.err, ErrInvalidUri, ...).
NilErr == [ptrError |-> FALSE, Err |-> "nil"]
ServerError(code) == [ptrError |-> TRUE, Err |-> code]
OtherError(e) == [ptrError |-> FALSE, Err |-> e]

\* What Statinfo can find for a child: a file, a directory, the "missing"
\* revision, or a Stat call that returns an error.
StatKinds == {"file", "dir", "missing", "fail"}

\* The servers: n entries at offsets 0..n-1 (entry k is named k), or no such
\* directory; the request at offset failAt (if any) ends in a transport
\* error; stat tells what Stat finds for each entry.
Servers(SK) ==
    UNION {{[n |-> k, absent |-> ab, failAt |-> fa, stat |-> st] :
               ab \in {b \in BOOLEAN : b => k = 0},
               fa \in -1..k,
               st \in [0..(k - 1) -> SK]} : k \in 0..MaxEntries}

\* What c.call returns for the GETDIR or WALK request at offset k, with the
\* Path of the response.
Page(srv, k) ==
    IF srv.failAt = k THEN [err |-> OtherError("ReadErr"), Path |-> -1]
    ELSE IF srv.absent THEN [err |-> ServerError("ErrNoEnt"), Path |-> -1]
    ELSE IF k >= srv.n THEN [err |-> ServerError("ErrRange"), Path |-> -1]
    ELSE [err |-> NilErr, Path |-> k]

\* A test that never finds the end of the listing.
IsRangeNever(err) == FALSE

\* err, ok := err.(*Error); ok && err.Err == ErrRange (lines 366, 453)
IsRange(err) == err.ptrError /\ err.Err = "ErrRange"

\* The loop of Getdir (lines 359-375): names is what was read so far, reqs
\* the offsets requested so far.
RECURSIVE GetdirLoop(_, _, _, _, _)
GetdirLoop(srv, off, lim, names, reqs) ==
    IF lim = 0 THEN [val |-> names, err |-> NilErr, reqs |-> reqs]
    ELSE LET r == Page(srv, off)
             sent == Append(reqs, off)
         IN  IF IsRange(r.err)
                THEN [val |-> names, err |-> NilErr, reqs |-> sent]
             ELSE IF r.err # NilErr
                THEN [val |-> <<>>, err |-> r.err, reqs |-> sent]
             ELSE GetdirLoop(srv, off + 1, lim - 1,
                             Append(names, r.Path), sent)

Getdir(srv, off, lim) == GetdirLoop(srv, off, lim, <<>>, <<>>)

\* The Event Walk builds from a response (lines 459-464).
Event(path) == [Path |-> path, Rev |-> 1, Body |-> path, Flag |-> 0]

\* The loop of Walk (lines 446-467).
RECURSIVE WalkLoop(_, _, _, _, _)
WalkLoop(srv, off, lim, info, reqs) ==
    IF lim = 0 THEN [val |-> info, err |-> NilErr, reqs |-> reqs]
    ELSE LET r == Page(srv, off)
             sent == Append(reqs, off)
         IN  IF IsRange(r.err)
                THEN [val |-> info, err |-> NilErr, reqs |-> sent]
             ELSE IF r.err # NilErr
                THEN [val |-> <<>>, err |-> r.err, reqs |-> sent]
             ELSE WalkLoop(srv, off + 1, lim - 1,
                           Append(info, Event(r.Path)), sent)

Walk(srv, off, lim) == WalkLoop(srv, off, lim, <<>>, <<>>)

\* The zero FileInfo; the empty Name is -1.
DefaultInfo == [Name |-> -1, Len |-> 0, Rev |-> 0, IsSet |-> FALSE,
                IsDir |-> FALSE]

\* Statinfo (lines 409-422) for the child named k: Stat's error, ErrNoEnt
\* for the "missing" revision, or the child's FileInfo.
Statinfo(srv, k) ==
    LET s == srv.stat[k]
    IN  IF s = "fail" THEN [f |-> DefaultInfo, err |-> ServerError("ErrNoEnt")]
        ELSE IF s = "missing"
           THEN [f |-> DefaultInfo, err |-> OtherError("ErrNoEnt")]
        ELSE [f |-> [Name |-> k, Len |-> 1, Rev |-> 1, IsSet |-> TRUE,
                     IsDir |-> (s = "dir")],
              err |-> NilErr]

\* The loop of Getdirinfo (lines 394-402), at names[i]: line 396 assigns
\* Statinfo's error to err, the named result, and the bare return of line
\* 403 returns a and whatever err holds.
RECURSIVE InfoLoop(_, _, _, _, _)
InfoLoop(srv, names, i, a, err) ==
    IF i > Len(names) THEN [val |-> a, err |-> err]
    ELSE LET s == Statinfo(srv, names[i])
         IN  IF s.err # NilErr
                THEN InfoLoop(srv, names, i + 1,
                              [a EXCEPT ![i].Name = names[i]],
                              s.err)
             ELSE InfoLoop(srv, names, i + 1, [a EXCEPT ![i] = s.f],
                           s.err)

Getdirinfo(srv, off, lim) ==
    LET g == Getdir(srv, off, lim)
    IN  IF g.err # NilErr THEN [val |-> <<>>, err |-> g.err, reqs |-> g.reqs]
        ELSE LET r == InfoLoop(srv, g.val, 1,
                               [i \in 1..Len(g.val) |-> DefaultInfo], g.err)
             IN  [val |-> r.val, err |-> r.err, reqs |-> g.reqs]

\* Nothing returned yet.
NoOut == [val |-> <<>>, err |-> NilErr, reqs |-> <<>>]

\* One operation, with its arguments, against one server.
PageInit ==
    /\ ConnInit
    /\ du = NoDial
    /\ \E fn \in {"Getdir", "Walk", "Getdirinfo"} :
       \E srv \in Servers(IF fn = "Getdirinfo" THEN StatKinds ELSE {"file"}) :
       \E off \in 0..(srv.n + 1), lim \in -1..(srv.n + 1) :
          pg = [fn |-> fn, srv |-> srv, off |-> off, lim |-> lim,
                done |-> FALSE, out |-> NoOut]

CallGetdir ==
    /\ pg.fn = "Getdir" /\ ~pg.done
    /\ pg' = [pg EXCEPT !.done = TRUE, !.out = Getdir(pg.srv, pg.off, pg.lim)]
    /\ UNCHANGED <<connVars, du>>

CallWalk ==
    /\ pg.fn = "Walk" /\ ~pg.done
    /\ pg' = [pg EXCEPT !.done = TRUE, !.out = Walk(pg.srv, pg.off, pg.lim)]
    /\ UNCHANGED <<connVars, du>>

CallGetdirinfo ==
    /\ pg.fn = "Getdirinfo" /\ ~pg.done
    /\ pg' = [pg EXCEPT !.done = TRUE,
                        !.out = Getdirinfo(pg.srv, pg.off, pg.lim)]
    /\ UNCHANGED <<connVars, du>>

PageNext == CallGetdir \/ CallWalk \/ CallGetdirinfo

PageSpec == PageInit /\ [][PageNext]_vars

\* ================================================================ dialUri
\* A URI: whether it starts with uriPrefix, whether its query parses, whether
\* it carries cn and sk, and the addresses under ca (none: ca is not given;
\* a key that is given has at least one value).
BadPrefix == [prefix |-> FALSE, parses |-> FALSE, cn |-> FALSE, ca |-> <<>>,
              sk |-> FALSE]
BadQuery == [prefix |-> TRUE, parses |-> FALSE, cn |-> FALSE, ca |-> <<>>,
             sk |-> FALSE]
Uris ==
    {BadPrefix, BadQuery}
    \cup {[prefix |-> TRUE, parses |-> TRUE, cn |-> cn, ca |-> ca, sk |-> sk] :
             cn \in BOOLEAN, ca \in {<<>>, <<1>>, <<1, 2>>}, sk \in BOOLEAN}

\* buri == "": no bootstrap URI.
NoUri == [prefix |-> FALSE, parses |-> FALSE, cn |-> FALSE, ca |-> <<>>,
          sk |-> FALSE, empty |-> TRUE]

\* The bootstrap URIs tried.
BootUris ==
    {BadPrefix,
     [prefix |-> TRUE, parses |-> TRUE, cn |-> TRUE, ca |-> <<>>, sk |-> FALSE],
     [prefix |-> TRUE, parses |-> TRUE, cn |-> FALSE, ca |-> <<9>>, sk |-> FALSE],
     [prefix |-> TRUE, parses |-> TRUE, cn |-> FALSE, ca |-> <<9>>, sk |-> TRUE]}

\* The bootstrap server as dialUri meets it: whether net_dial reaches it,
\* whether it grants Access, whether Rev is answered, its /ctl/ns/<name>
\* directory, and the child (if any) whose Get fails.  The body of child k
\* is the address k + 10.
NoBoot == [up |-> FALSE, access |-> FALSE, revOk |-> FALSE,
           srv |-> [n |-> 0, absent |-> TRUE, failAt |-> -1,
                    stat |-> <<>>],
           getFail |-> -1]
Boots ==
    {NoBoot, [NoBoot EXCEPT !.up = TRUE],
     [NoBoot EXCEPT !.up = TRUE, !.access = TRUE]}
    \cup {[up |-> TRUE, access |-> TRUE, revOk |-> TRUE, srv |-> sv,
           getFail |-> gf] : sv \in Servers({"file"}), gf \in -1..0}

\* dialUri(buri, "", net_dial) (line 93) against the bootstrap server: the
\* error it returns ("nil": a connection) and the dials it made.
BootDial(buri, boot) ==
    IF ~buri.prefix THEN [err |-> "ErrInvalidUri", dials |-> 0]
    ELSE IF ~buri.parses THEN [err |-> "ParseErr", dials |-> 0]
    ELSE IF buri.ca = <<>> THEN [err |-> "ErrInvalidUri", dials |-> 0]
    ELSE IF ~boot.up THEN [err |-> "DialErr", dials |-> 1]
    ELSE IF buri.sk /\ ~boot.access THEN [err |-> "ServerErr", dials |-> 1]
    ELSE [err |-> "nil", dials |-> 1]

\* The loop of lookup (lines 156-162) over names from position i on.
RECURSIVE GetLoop(_, _, _, _)
GetLoop(boot, names, i, as) ==
    IF i > Len(names) THEN [as |-> as, err |-> NilErr]
    ELSE IF boot.getFail = names[i]
       THEN [as |-> <<>>, err |-> ServerError("ErrNoEnt")]
    ELSE GetLoop(boot, names, i + 1, Append(as, names[i] + 10))

\* A lookup that reports a missing directory as the error it is.
lookupNoEntFails(boot) ==
    IF ~boot.revOk THEN [as |-> <<>>, err |-> OtherError("ReadErr")]
    ELSE LET g == Getdir(boot.srv, 0, -1)
         IN  IF g.err # NilErr THEN [as |-> <<>>, err |-> g.err]
             ELSE GetLoop(boot, g.val, 1, <<>>)

\* lookup (lines 141-164).  The err of "else if err != nil" (line 151) is the
\* *Error of the type assertion of line 149, nil when Getdir's error is not
\* a *Error: such an error is not returned, and names is nil.
lookup(boot) ==
    IF ~boot.revOk THEN [as |-> <<>>, err |-> OtherError("ReadErr")]
    ELSE LET g == Getdir(boot.srv, 0, -1)
         IN  IF g.err.ptrError /\ g.err.Err = "ErrNoEnt"
                THEN [as |-> <<>>, err |-> NilErr]
             ELSE IF g.err.ptrError THEN [as |-> <<>>, err |-> g.err]
             ELSE GetLoop(boot, g.val, 1, <<>>)

\* dialUri up to line 110: the error it returns there ("nil": it goes on to
\* line 111), the candidate addresses, what lookup returned, whether a
\* bootstrap connection was opened (it is never closed), the dials made.
NoLook == [as |-> <<>>, err |-> NilErr, called |-> FALSE]
Resolved(err, addrs, look, bconn, dials) ==
    [err |-> err, addrs |-> addrs, look |-> look, bconn |-> bconn,
     dials |-> dials]
Resolve(uri, buri, boot) ==
    IF ~uri.prefix THEN Resolved("ErrInvalidUri", <<>>, NoLook, FALSE, 0)
    ELSE IF ~uri.parses THEN Resolved("ParseErr", <<>>, NoLook, FALSE, 0)
    ELSE IF uri.cn /\ buri # NoUri
       THEN LET b == BootDial(buri, boot)
                l == lookup(boot)
                look == [as |-> l.as, err |-> l.err, called |-> TRUE]
            IN  IF b.err # "nil"
                   THEN Resolved(b.err, <<>>, NoLook, FALSE, b.dials)
                ELSE IF l.err # NilErr
                   THEN Resolved(l.err.Err, <<>>, look, TRUE, b.dials)
                ELSE Resolved("nil", l.as, look, TRUE, b.dials)
    ELSE IF uri.ca = <<>>
       THEN Resolved("ErrInvalidUri", <<>>, NoLook, FALSE, 0)
    ELSE Resolved("nil", uri.ca, NoLook, FALSE, 0)

\* The goroutine that runs dialUri.
Dialer == "a"

\* One dialUri, with its arguments; the bootstrap server is left out
\* (NoBoot) where dialUri cannot come to dial it.
DialInit ==
    /\ ConnInit
    /\ pg = NoPage
    /\ \E uri \in Uris, buri \in {NoUri} \cup BootUris, boot \in Boots :
          /\ boot # NoBoot =>
                /\ uri.parses /\ uri.cn
                /\ buri # NoUri /\ buri.ca # <<>>
          /\ du = [pc |-> "start", uri |-> uri, buri |-> buri, boot |-> boot,
                   res |-> Resolved("nil", <<>>, NoLook, FALSE, 0),
                   addr |-> 0, dials |-> 0, dialed |-> FALSE,
                   c |-> FALSE, err |-> "nil"]

\* Lines 80-109.
DuResolve ==
    /\ du.pc = "start"
    /\ LET r == Resolve(du.uri, du.buri, du.boot)
       IN  du' = [du EXCEPT !.res = r, !.dials = r.dials, !.err = r.err,
                            !.pc = IF r.err # "nil" THEN "done" ELSE "dial"]
    /\ UNCHANGED <<connVars, pg>>

\* Line 111: rand.Int()%len(addrs) panics (division by zero) when addrs is
\* empty; else one of the candidates is dialed, and dial (lines 55-73)
\* fails, or starts mux and readAll on the new connection.
DuDial ==
    /\ du.pc = "dial"
    /\ IF du.res.addrs = <<>>
          THEN du' = [du EXCEPT !.pc = "panicked"]
          ELSE \E i \in 1..Len(du.res.addrs), ok \in BOOLEAN :
                  du' = [du EXCEPT !.addr = du.res.addrs[i],
                                   !.dials = @ + 1,
                                   !.dialed = ok,
                                   !.err = IF ok THEN "nil" ELSE "DialErr",
                                   !.c = ok /\ ~du.uri.sk,
                                   !.pc = IF ok /\ du.uri.sk THEN "access"
                                          ELSE "done"]
    /\ UNCHANGED <<connVars, pg>>

\* Line 118: c.Access(secret[0]) enters call.
DuAccess ==
    /\ du.pc = "access"
    /\ StartCall(Dialer)
    /\ du' = [du EXCEPT !.pc = "inAccess"]
    /\ UNCHANGED pg

\* Access returns: with an error dialUri goes on to line 120, without one
\* it returns the connection.
DuAccessReturns ==
    /\ du.pc = "inAccess"
    /\ CallStopped(Dialer) \/ CallReturn(Dialer)
    /\ du' = [du EXCEPT !.err = ret'[Dialer].err,
                        !.c = (ret'[Dialer].err = "nil"),
                        !.pc = IF ret'[Dialer].err = "nil" THEN "done"
                               ELSE "close"]
    /\ UNCHANGED pg

\* A dialUri that returns the error and leaves the connection as it is.
DuCloseForgotten ==
    /\ du.pc = "close"
    /\ du' = [du EXCEPT !.pc = "done"]
    /\ UNCHANGED <<connVars, pg>>

\* Lines 120-121: c.Close(); return nil, err.
DuClose ==
    /\ du.pc = "close"
    /\ Close
    /\ du' = [du EXCEPT !.pc = "done"]
    /\ UNCHANGED pg

DialNext ==
    \/ DuResolve
    \/ DuDial
    \/ DuAccess
    \/ DuAccessReturns
    \/ DuClose
    \/ du.dialed /\ (\E c \in Callers : Admit(c)) /\ UNCHANGED otherVars
    \/ du.dialed /\ Deliver /\ UNCHANGED otherVars
    \/ du.dialed /\ MuxErrch /\ UNCHANGED otherVars
    \/ du.dialed /\ MuxStop /\ UNCHANGED otherVars
    \/ du.dialed /\ (\E k \in iter : MuxRange(k)) /\ UNCHANGED otherVars
    \/ du.dialed /\ MuxCloseConn /\ UNCHANGED otherVars
    \/ du.dialed /\ MuxCloseStopped /\ UNCHANGED otherVars
    \/ du.dialed /\ ReaderRead /\ UNCHANGED otherVars
    \/ du.dialed /\ ReaderReadErr /\ UNCHANGED otherVars

DialSpec == DialInit /\ [][DialNext]_vars

\* dialUri goes on while it can, and so do the goroutines of the connection
\* it dialed (as in FairSpec).
DialFairSpec ==
    /\ DialSpec
    /\ WF_vars(DuResolve) /\ WF_vars(DuDial) /\ WF_vars(DuAccess)
    /\ WF_vars(DuAccessReturns) /\ WF_vars(DuClose)
    /\ \A c \in Callers : WF_vars(du.dialed /\ Admit(c) /\ UNCHANGED otherVars)
    /\ WF_vars(du.dialed /\ Deliver /\ UNCHANGED otherVars)
    /\ WF_vars(du.dialed /\ MuxErrch /\ UNCHANGED otherVars)
    /\ WF_vars(du.dialed /\ MuxStop /\ UNCHANGED otherVars)
    /\ WF_vars(du.dialed /\ (\E k \in iter : MuxRange(k))
                  /\ UNCHANGED otherVars)
    /\ WF_vars(du.dialed /\ MuxCloseConn /\ UNCHANGED otherVars)
    /\ WF_vars(du.dialed /\ MuxCloseStopped /\ UNCHANGED otherVars)
    /\ WF_vars(du.dialed /\ ReaderReadErr /\ connClosed
                  /\ UNCHANGED otherVars)

\* ================================================================ claims
\* Caller c's txn has been admitted by mux and no value has been sent on its
\* done channel: the txn is outstanding.
Outstanding(c) == cpc[c] = "wait" /\ fired[c] = 0

\* ---------------------------------------------------------------- C2
\* C2: tag uniqueness.  No two outstanding txns carry the same tag, and every
\* outstanding txn is still the table's entry under its own tag: no admission
\* has overwritten it.
C2_TagUniqueness ==
    /\ \A c1, c2 \in Callers :
         (c1 # c2 /\ Outstanding(c1) /\ Outstanding(c2)) => tTag[c1] # tTag[c2]
    /\ \A c \in Callers :
         Outstanding(c) => Lookup(txns, tTag[c][1]) = TxnOf(c, cur[c])

\* Two txns are outstanding at once, and the last admission had to step over
\* an occupied tag.
C2_Witness ==
    /\ \E c1, c2 \in Callers : c1 # c2 /\ Outstanding(c1) /\ Outstanding(c2)
    /\ lastAdmit.any
    /\ lastAdmit.tag # lastAdmit.cursor

\* ---------------------------------------------------------------- C3
\* C3 as stated: every submission is stamped with the lowest tag that holds no
\* txn in the table.
C3_LowestAvailable ==
    lastAdmit.any => lastAdmit.tag = LowestFree(lastAdmit.occ)

\* C3 as amended: every submission is stamped with the first tag, counting
\* upward from the tag stamped last (from 0 on the first submission), under
\* which the table holds no txn; a lower tag that has become free is not
\* taken.
C3_NextFreeFromCursor ==
    /\ lastAdmit.any =>
         /\ lastAdmit.tag >= lastAdmit.cursor
         /\ lastAdmit.tag \notin lastAdmit.occ
         /\ \A k \in lastAdmit.cursor..(lastAdmit.tag - 1) : k \in lastAdmit.occ
         /\ n = lastAdmit.tag
    /\ ~lastAdmit.any => n = 0

\* A txn with a lower tag completed while a higher tag was outstanding, and
\* the next submission went above the outstanding tag instead of taking the
\* freed one.
C3_Witness ==
    /\ lastAdmit.any
    /\ LowestFree(lastAdmit.occ) < lastAdmit.tag
    /\ \E k \in lastAdmit.occ : LowestFree(lastAdmit.occ) < k /\ k < lastAdmit.tag

Broken == closed \/ rpc = "done" \/ cErr = "WriteErr"

\* C1: once the connection is closed or broken, every call that was started
\* (waiting to submit, or admitted and waiting on done) eventually returns;
\* and a call that returns no error has its response attached.
C1_EveryCallReturns ==
    /\ \A c \in Callers : (Broken /\ cpc[c] # "idle") ~> (cpc[c] = "idle")
    /\ [](\A c \in Callers :
            (cur[c] > 0 /\ cpc[c] = "idle" /\ ret[c].err = "nil")
                => ret[c].resp # NilPtr)

\* ---------------------------------------------------------------- C5
\* C5: a call begun after a Close() has returned returns ErrClosed; stated
\* here by the part of it that says the most: such a call never returns a
\* successful result (a nil error).
C5_NoSuccessAfterClose ==
    [][\A c \in Callers :
         (afterClose[c] /\ cpc[c] # "idle" /\ cpc'[c] = "idle")
             => ret'[c].err # "nil"]_vars

\* ---------------------------------------------------------------- C6
\* C6: when the code after the error label is over (mux has returned or has
\* died), every txn the table held has been completed with c.err; and a call
\* that returned without ever being admitted returned c.err.
C6_TerminalBroadcast ==
    /\ (termRuns > 0 /\ muxpc \in {"done", "panicked"}) =>
         \A k \in Occupied(txns) :
            LET c == Owner(txns[k])
            IN \/ cur[c] > CallNo(txns[k])
               \/ (tErr[c] = cErr /\ fired[c] = 1)
    /\ \A c \in Callers :
         (cur[c] > 0 /\ cpc[c] = "idle" /\ tTag[c] = NilPtr) => ret[c].err = cErr

\* ---------------------------------------------------------------- C7
\* The frame does not decode, has no tag, or has a tag under which the table
\* holds no txn.
BadFrame(f) ==
    \/ f.kind # "resp"
    \/ f.tag = NilPtr
    \/ f.tag[1] \notin Occupied(txns)

\* The step in which mux takes the reader's frame.
DeliverStep == rpc = "sendmsg" /\ rpc' = "read"

\* C7: the delivery of a bad frame changes neither the table nor any txn nor
\* the state of any caller, records no error, and leaves mux at its select.
C7_BadFramesTolerated ==
    [][(DeliverStep /\ BadFrame(buf)) =>
          /\ txns' = txns
          /\ tErr' = tErr /\ tResp' = tResp /\ tDone' = tDone /\ fired' = fired
          /\ cpc' = cpc
          /\ cErr' = cErr /\ termRuns' = termRuns
          /\ muxpc' = "select"]_vars

\* A frame has been dropped while a txn was outstanding, and the connection
\* is alive with that txn still pending.
C7_Witness ==
    /\ dropped
    /\ muxpc = "select"
    /\ cErr = "nil"
    /\ \E c \in Callers : Outstanding(c)

\* ---------------------------------------------------------------- C8
\* C8: the step in which the encoding of c's request fails unblocks c with the
\* encode error, leaves no key for its tag in the table, writes nothing,
\* touches no other txn, and does not start the terminal transition.
C8_EncodeFailureLocal ==
    [][\A c \in Callers :
         (tErr[c] # "EncodeErr" /\ tErr'[c] = "EncodeErr") =>
            /\ tDone'[c]
            /\ tTag'[c][1] \notin DOMAIN txns'
            /\ stream' = stream
            /\ termRuns' = termRuns /\ muxpc' = "select"
            /\ \A d \in Callers \ {c} :
                 /\ tErr'[d] = tErr[d] /\ tResp'[d] = tResp[d]
                 /\ tDone'[d] = tDone[d] /\ fired'[d] = fired[d]]_vars

\* ---------------------------------------------------------------- C9
\* C9: once the terminal transition has begun, the stream is closed and both
\* mux and readAll have returned, eventually.
C9_Lifecycle ==
    (termRuns > 0) ~> (connClosed /\ muxpc = "done" /\ rpc = "done")

\* ---------------------------------------------------------------- C10
\* C10: the delivery of a response whose tag k has a txn in the table
\* completes the txn that was stamped k, which is the one whose request the
\* response answers; k leaves the table, every other entry stays, and no
\* other txn changes.  So the response a caller holds is always the answer to
\* its own request.
C10_RoutingByTag ==
    /\ [](\A c \in Callers :
            tResp[c] # NilPtr => tResp[c][1].ans = TxnOf(c, cur[c]))
    /\ [][(DeliverStep /\ ~BadFrame(buf)) =>
            \E c \in Callers :
               /\ Outstanding(c)
               /\ tTag[c] = buf.tag
               /\ buf.ans = TxnOf(c, cur[c])
               /\ tResp'[c] = Ptr(buf)
               /\ tDone'[c] /\ fired'[c] = 1
               /\ txns' = Delete(txns, buf.tag[1])
               /\ tErr' = tErr
               /\ \A d \in Callers \ {c} :
                    /\ tResp'[d] = tResp[d]
                    /\ tDone'[d] = tDone[d] /\ fired'[d] = fired[d]]_vars

\* The server answered out of order: d holds the answer to its own request
\* while c, stamped with a lower tag, is still outstanding.
C10_Witness ==
    \E c, d \in Callers :
       /\ c # d
       /\ Outstanding(c)
       /\ tResp[d] # NilPtr
       /\ tResp[d][1].ans = TxnOf(d, cur[d])
       /\ tTag[d][1] > tTag[c][1]

\* ---------------------------------------------------------------- C15
\* C15: while mux serves submissions and deliveries, every key of the table
\* maps to a txn, never to nil, and that txn is outstanding: its caller is
\* waiting on done and nothing has been sent on it.
C15_TableEntriesOutstanding ==
    muxpc = "select" =>
       \A k \in DOMAIN txns :
          /\ txns[k] # NilTxn
          /\ cur[Owner(txns[k])] = CallNo(txns[k])
          /\ Outstanding(Owner(txns[k]))

\* ---------------------------------------------------------------- C16
\* C16: once the terminal transition has begun it runs to its end: c.stopped
\* is closed, mux has returned, and c.err is the error recorded, not nil.
C16_TerminalCompletes ==
    (termRuns > 0) ~> (stopped /\ muxpc = "done" /\ cErr # "nil")

\* ---------------------------------------------------------------- C18
\* Caller c is back from a call.
Back(c) == cur[c] > 0 /\ cpc[c] = "idle"

\* C18: a call that was admitted returns t.err if it is set, else the server's
\* error if the response carries a code, else nil, and then the response is
\* attached and carries no code; a call that was not admitted returns c.err,
\* which is not nil.  The delivery of a response with an error code completes
\* the txn of its tag only: no terminal transition, no change to c.err, to
\* the rest of the table or to another txn.
C18_CallOutcome ==
    /\ [](\A c \in Callers : Back(c) =>
            /\ tTag[c] = NilPtr => (ret[c].err = cErr /\ ret[c].err # "nil")
            /\ (tTag[c] # NilPtr /\ tErr[c] # "nil") => ret[c].err = tErr[c]
            /\ (tTag[c] # NilPtr /\ tErr[c] = "nil") =>
                 /\ tResp[c] # NilPtr
                 /\ tResp[c][1].code = "err" => ret[c].err = "ServerErr"
                 /\ tResp[c][1].code = "ok" => ret[c].err = "nil"
            /\ ret[c].err = "nil" =>
                 (ret[c].resp # NilPtr /\ ret[c].resp[1].code = "ok"))
    /\ [][(DeliverStep /\ ~BadFrame(buf) /\ buf.code = "err") =>
            /\ muxpc' = "select" /\ termRuns' = termRuns /\ cErr' = cErr
            /\ tErr' = tErr
            /\ \A k \in DOMAIN txns \ {buf.tag[1]} :
                 k \in DOMAIN txns' /\ txns'[k] = txns[k]
            /\ \A d \in Callers :
                 tTag[d] # buf.tag =>
                    /\ tResp'[d] = tResp[d]
                    /\ tDone'[d] = tDone[d] /\ fired'[d] = fired[d]]_vars

\* One caller is back with the server's error while another txn is still
\* outstanding on a connection that is alive.
C18_Witness ==
    \E c, d \in Callers :
       /\ Back(c) /\ ret[c].err = "ServerErr"
       /\ Outstanding(d)
       /\ muxpc = "select" /\ cErr = "nil"

\* ---------------------------------------------------------------- C19
\* C19: at most one value is ever sent on a txn's done channel, every send
\* finds the owner at (or, having just handed its txn over, on its way to)
\* the receive of line 172, and mux is never left blocked in such a send.
C19_SingleFire ==
    /\ [](\A c \in Callers : fired[c] <= 1 /\ (tDone[c] => cpc[c] = "wait"))
    /\ [](muxpc # "blocked")
    /\ [][\A c \in Callers :
            fired'[c] > fired[c] =>
               /\ fired[c] = 0
               /\ cpc'[c] = "wait"
               /\ cpc[c] \in {"wait", "select"}
               /\ cur'[c] = cur[c]]_vars

\* A frame was dropped, one txn was completed by its response and another by
\* the terminal broadcast, and mux has finished.
C19_Witness ==
    /\ dropped
    /\ muxpc = "done"
    /\ \E c, d \in Callers :
          /\ c # d
          /\ fired[c] = 1 /\ tResp[c] # NilPtr
          /\ fired[d] = 1 /\ tErr[d] = cErr

\* ---------------------------------------------------------------- C20
\* C20: the stream changes only in a step of mux's submission case, before
\* any terminal transition, and the change is one whole frame, that of the
\* txn admitted in that very step, put after all the frames written before:
\* the frames lie on the stream in the order of admission.
C20_FifoWrites ==
    [][stream' # stream =>
          /\ muxpc = "select" /\ termRuns = 0 /\ termRuns' = 0
          /\ \E c \in Callers :
                /\ cpc[c] = "select" /\ cpc'[c] = "wait"
                /\ stream' = Append(stream, [tag |-> tTag'[c][1],
                                             req |-> TxnOf(c, cur[c])])]_vars

\* The requests of two callers lie on the stream, and the terminal
\* transition has run since.
C20_Witness ==
    /\ Len(stream) >= 2
    /\ Owner(stream[1].req) # Owner(stream[2].req)
    /\ muxpc = "done"

\* ---------------------------------------------------------------- C11
\* The entries a listing of n entries has from offset off on.
Avail(srv, off) == IF srv.n > off THEN srv.n - off ELSE 0

\* How many of them an operation with limit lim is to return.
Wanted(srv, off, lim) ==
    IF lim < 0 \/ lim > Avail(srv, off) THEN Avail(srv, off) ELSE lim

\* How many requests that takes: one per entry, and one more, answered
\* out-of-range, unless the limit stops the operation first.
Asked(srv, off, lim) ==
    IF lim >= 0 /\ lim <= Avail(srv, off) THEN lim
    ELSE Avail(srv, off) + 1

\* The server has the directory and answers each of those requests.
Served(srv, off, lim) ==
    /\ ~srv.absent
    /\ srv.failAt \notin off..(off + Asked(srv, off, lim) - 1)

\* C11: a Getdir or Walk that the server serves always returns; it has sent
\* one request per offset off, off+1, ..., it returns the entries at those
\* offsets in order, as many as the limit allows or the listing has, with no
\* error; with lim = -1 from offset 0 these are the n entries, and the last
\* request, at offset n, is the one answered out-of-range.
C11_Pagination ==
    /\ pg.fn \in {"Getdir", "Walk"} =>
          /\ ~pg.done => ENABLED PageNext
          /\ (pg.done /\ Served(pg.srv, pg.off, pg.lim)) =>
                /\ pg.out.err = NilErr
                /\ pg.out.reqs = [j \in 1..Asked(pg.srv, pg.off, pg.lim) |->
                                     pg.off + j - 1]
                /\ Len(pg.out.val) = Wanted(pg.srv, pg.off, pg.lim)
                /\ \A j \in 1..Len(pg.out.val) :
                      pg.out.val[j] = IF pg.fn = "Getdir" THEN pg.off + j - 1
                                      ELSE Event(pg.off + j - 1)
                /\ (pg.lim = -1 /\ pg.off = 0) =>
                      /\ Len(pg.out.val) = pg.srv.n
                      /\ pg.out.reqs[Len(pg.out.reqs)] = pg.srv.n

\* A Walk with lim = -1 from offset 0 has returned a listing of at least two
\* entries.
C11_Witness ==
    /\ pg.fn = "Walk" /\ pg.done
    /\ pg.lim = -1 /\ pg.off = 0 /\ pg.srv.n >= 2
    /\ Served(pg.srv, pg.off, pg.lim)
    /\ Len(pg.out.val) = pg.srv.n

\* ---------------------------------------------------------------- C12
\* C12: when the underlying Getdir succeeds, Getdirinfo reports no error and
\* returns one entry per listed name, in order; the entry of a child whose
\* Stat failed has its Name and nothing else, whichever child it is.
C12_GetdirinfoDegrades ==
    (pg.fn = "Getdirinfo" /\ pg.done /\ Served(pg.srv, pg.off, pg.lim)) =>
       /\ pg.out.err = NilErr
       /\ Len(pg.out.val) = Wanted(pg.srv, pg.off, pg.lim)
       /\ \A j \in 1..Len(pg.out.val) :
             /\ pg.out.val[j].Name = pg.off + j - 1
             /\ pg.srv.stat[pg.off + j - 1] \in {"fail", "missing"} =>
                   pg.out.val[j] = [DefaultInfo EXCEPT !.Name = pg.off + j - 1]

\* ---------------------------------------------------------------- C13
\* dialUri is past line 110, or has returned.
Resolving == du.pc \notin {"none", "start"}

\* dialUri got a bootstrap connection.
Bootstrapped ==
    /\ du.uri.parses /\ du.uri.cn /\ du.buri # NoUri
    /\ du.buri.prefix /\ du.buri.parses /\ du.buri.ca # <<>>
    /\ du.boot.up /\ (du.buri.sk => du.boot.access)

\* C13: a URI without the prefix fails with ErrInvalidUri; with ca=<addr>
\* (and no lookup) the candidates are exactly that address, and no other is
\* dialed; with a cluster name only and no bootstrap URI dialUri fails with
\* ErrInvalidUri and has dialed nothing; with a cluster name and a bootstrap
\* connection whose directory is absent, lookup returns no address and no
\* error.
C13_UriResolution ==
    Resolving =>
       /\ ~du.uri.prefix =>
             (du.pc = "done" /\ ~du.c /\ du.err = "ErrInvalidUri"
                /\ du.dials = 0)
       /\ (du.uri.parses /\ Len(du.uri.ca) = 1
              /\ (~du.uri.cn \/ du.buri = NoUri)) =>
             /\ du.res.addrs = du.uri.ca
             /\ du.dials > 0 => (du.dials = 1 /\ du.addr = du.uri.ca[1])
       /\ (du.uri.parses /\ du.uri.cn /\ du.uri.ca = <<>>
              /\ du.buri = NoUri) =>
             (du.pc = "done" /\ ~du.c /\ du.err = "ErrInvalidUri"
                /\ du.dials = 0)
       /\ (Bootstrapped /\ du.boot.revOk /\ du.boot.srv.absent
              /\ du.boot.srv.failAt # 0) =>
             /\ du.res.look.called
             /\ du.res.look.as = <<>> /\ du.res.look.err = NilErr
             /\ du.res.addrs = <<>>

\* dialUri, given a cluster name, has asked a bootstrap server whose
\* directory is absent.
C13_Witness ==
    /\ Resolving
    /\ Bootstrapped /\ du.boot.revOk /\ du.boot.srv.absent
    /\ du.boot.srv.failAt # 0
    /\ du.res.look.called /\ du.res.addrs = <<>>

\* ---------------------------------------------------------------- C14
\* The server answered the Access of dialUri with an error code, and Access
\* has returned.
Rejected ==
    /\ du.pc \in {"close", "done"}
    /\ cur[Dialer] = 1 /\ cpc[Dialer] = "idle"
    /\ tErr[Dialer] = "nil"
    /\ tResp[Dialer] # NilPtr /\ tResp[Dialer][1].code = "err"

\* C14: when the server rejects the Access of dialUri, dialUri returns no
\* connection and the server's error, and the stream of the connection it
\* dialed is eventually closed.
C14_AccessFailure ==
    /\ []((Rejected /\ du.pc = "done") => (~du.c /\ du.err = "ServerErr"))
    /\ [](Rejected => du.err = "ServerErr")
    /\ Rejected ~> connClosed

\* dialUri has returned the server's rejection and the stream is closed.
C14_Witness ==
    Rejected /\ du.pc = "done" /\ closed /\ connClosed /\ du.err = "ServerErr"

\* ---------------------------------------------------------------- C17
\* C17: dialUri never selects an address from an empty list: when it has
\* resolved no address it returns an error to its caller, and it dials for
\* the connection it returns only an address taken from a non-empty list.
C17_NonEmptyCandidates ==
    /\ du.pc # "panicked"
    /\ (du.pc = "done" /\ du.res.addrs = <<>>) => (~du.c /\ du.err # "nil")
    /\ du.dialed => du.res.addrs # <<>>

====
